---------------------------- MODULE Spec2Model ----------------------------
(***************************************************************************)
(* Model of datafusion_ai: the ask_llm scalar UDF (src/llm_udf.rs), its    *)
(* remote backend (src/ollama_utils.rs) and the local llama.cpp backend    *)
(* (src/llm_utils.rs).                                                     *)
(*                                                                         *)
(* A Rust String is modelled as a sequence of tokens.  A token is a        *)
(* one-character string ("-", ">", " ", "\n", ...) wherever the code       *)
(* inspects characters (lines, split("->"), trim), and a longer literal    *)
(* for text the code only copies (format! fragments, words of a reply).    *)
(***************************************************************************)
EXTENDS Integers, Sequences, FiniteSets, TLC

VARIABLES
    \* ---- parse_llm_response driven directly (SpecParse)
    v_list,        \* the ordered list of values a reply is built from
    raw_reply,     \* the RawReply handed to parse_llm_response
    parsed,        \* what parse_llm_response returned
    parse_pc,      \* "input" | "built" | "parsed"
    \* ---- AskLLM (Spec)
    args,          \* ScalarFunctionArgs.args of the invoke_with_args call
    udf_pc,        \* "called" | "par" | "returned"; "direct": process_chunk called on its own
    task,          \* per chunk: the closure of flat_map and its process_chunk future
    completion,    \* chunk indices in the order their closures finished
    posted,        \* the requests POSTed to the Ollama server so far
    n_apps,        \* number of OllamaApp values constructed so far
    result,        \* Option of the Result returned by invoke_with_args
    \* ---- LlamaApp (SpecLlama)
    llama_resources,  \* LLAMA_RESOURCES: None, or Some(number of the construction that set it)
    constructions,    \* number of LlamaApp::new calls so far
    last_new,         \* how the latest LlamaApp::new ended
    mutex_owner,      \* the thread holding the Mutex inside LLAMA_RESOURCES, or NoThread
    gen               \* per thread: its generate_text call

parseVars == <<v_list, raw_reply, parsed, parse_pc>>
udfVars == <<args, udf_pc, task, completion, posted, n_apps, result>>
llamaVars == <<llama_resources, constructions, last_new, mutex_owner, gen>>
vars == <<parseVars, udfVars, llamaVars>>

\* ------------------------------------------------------------------------
\* Bounds of the model
\* ------------------------------------------------------------------------
MaxValueLen == 1      \* longest value (in characters) of a round-trip list
MaxK == 2             \* longest round-trip list
MaxRows == 11         \* longest input column handed to invoke_with_args
MaxReplyLines == 6    \* most "n -> value" lines in a reply to a dispatched chunk
MaxRawLen == 5        \* longest free-form reply (in characters) to a direct process_chunk call
NumThreads == 2       \* threads calling LlamaApp::generate_text
MaxCtx == 3           \* largest ctx_size passed to generate_text
MaxPromptLen == 2     \* most tokens (BOS included) a prompt is tokenized into
MaxNew == 2           \* LlamaApp::new calls in one process

\* ------------------------------------------------------------------------
\* Strings
\* ------------------------------------------------------------------------
None == [some |-> FALSE]
Some(x) == [some |-> TRUE, val |-> x]

\* char::is_whitespace for the characters the model uses (str::trim)
Whitespace == {" ", "\t", "\n", "\r"}

\* Seq(S) restricted to length <= n
SeqsUpTo(S, n) == UNION {[1..k -> S] : k \in 0..n}

\* the decimal rendering of a number by format!("{}", n)
Decimal(n) == <<ToString(n)>>

\* pat occurs in s at index i
MatchAt(s, pat, i) ==
    /\ i + Len(pat) - 1 <= Len(s)
    /\ \A j \in 1..Len(pat) : s[i + j - 1] = pat[j]

\* the first index >= i at which pat occurs in s, 0 when there is none
RECURSIVE FindFrom(_, _, _)
FindFrom(s, pat, i) ==
    IF i + Len(pat) - 1 > Len(s) THEN 0
    ELSE IF MatchAt(s, pat, i) THEN i
    ELSE FindFrom(s, pat, i + 1)

\* s.find(pat): index of the first match, 0 when there is none
FindStr(s, pat) == FindFrom(s, pat, 1)

\* s.contains(pat)
ContainsStr(s, pat) == FindStr(s, pat) # 0

\* str::split(pat): the pieces between successive non-overlapping matches,
\* left to right; always at least one piece
RECURSIVE SplitStr(_, _)
SplitStr(s, pat) ==
    LET i == FindStr(s, pat)
    IN  IF i = 0 THEN <<s>>
        ELSE <<SubSeq(s, 1, i - 1)>> \o SplitStr(SubSeq(s, i + Len(pat), Len(s)), pat)

\* Iterator::nth(n) (0-based) over a sequence of pieces
Nth(pieces, n) == IF n + 1 <= Len(pieces) THEN Some(pieces[n + 1]) ELSE None

\* str::trim_start / trim_end / trim
RECURSIVE TrimStart(_)
TrimStart(s) ==
    IF s # <<>> /\ Head(s) \in Whitespace THEN TrimStart(Tail(s)) ELSE s

RECURSIVE TrimEnd(_)
TrimEnd(s) ==
    IF s # <<>> /\ s[Len(s)] \in Whitespace THEN TrimEnd(SubSeq(s, 1, Len(s) - 1)) ELSE s

Trim(s) == TrimEnd(TrimStart(s))

\* str::lines(): split after every "\n" (split_inclusive), no line for the
\* empty remainder after a final "\n"; each line loses its "\n" and then
\* one "\r" before it
StripLineEnding(l) ==
    IF l # <<>> /\ l[Len(l)] = "\n"
    THEN LET m == SubSeq(l, 1, Len(l) - 1)
         IN  IF m # <<>> /\ m[Len(m)] = "\r" THEN SubSeq(m, 1, Len(m) - 1) ELSE m
    ELSE l

RECURSIVE SplitInclusive(_)
SplitInclusive(s) ==
    IF s = <<>> THEN <<>>
    ELSE LET i == FindStr(s, <<"\n">>)
         IN  IF i = 0 THEN <<s>>
             ELSE <<SubSeq(s, 1, i)>> \o SplitInclusive(SubSeq(s, i + 1, Len(s)))

Lines(s) ==
    LET segs == SplitInclusive(s)
    IN  [i \in 1..Len(segs) |-> StripLineEnding(segs[i])]

\* [String]::join(sep)
RECURSIVE Join(_, _)
Join(strs, sep) ==
    IF strs = <<>> THEN <<>>
    ELSE IF Len(strs) = 1 THEN strs[1]
    ELSE strs[1] \o sep \o Join(Tail(strs), sep)

\* Iterator::filter_map over a sequence of Option values
RECURSIVE FilterSome(_)
FilterSome(opts) ==
    IF opts = <<>> THEN <<>>
    ELSE IF Head(opts).some THEN <<Head(opts).val>> \o FilterSome(Tail(opts))
    ELSE FilterSome(Tail(opts))

\* ------------------------------------------------------------------------
\* parse_llm_response (llm_udf.rs 150-159)
\* ------------------------------------------------------------------------
Arrow == <<"-", ">">>

\* ParseLine taking the piece before the delimiter: nth(0)
ParseLine_nth0(line) ==
    IF ContainsStr(line, Arrow) THEN Some(Trim(SplitStr(line, Arrow)[1])) ELSE None

\* ParseLine with the trim() forgotten
ParseLine_untrimmed(line) == Nth(SplitStr(line, Arrow), 1)

\* the closure of filter_map: line.split("->").nth(1).map(|v| v.trim())
ParseLine(line) ==
    LET piece == Nth(SplitStr(line, Arrow), 1)
    IN  IF piece.some THEN Some(Trim(piece.val)) ELSE None

parse_llm_response(input) ==
    LET ls == Lines(input)
    IN  FilterSome([i \in 1..Len(ls) |-> ParseLine(ls[i])])

\* ------------------------------------------------------------------------
\* SpecParse: parse_llm_response applied to replies built from value lists
\* ------------------------------------------------------------------------
ValueAlphabet == {"a", " ", "-", ">", "\n", "\r"}

\* the strings "not containing ->"
Values == {v \in SeqsUpTo(ValueAlphabet, MaxValueLen) : ~ContainsStr(v, Arrow)}

\* "1 -> {v1}\n2 -> {v2}\n...\nK -> {vK}"
NumberedReply(vs) ==
    Join([i \in 1..Len(vs) |-> Decimal(i) \o <<" ", "-", ">", " ">> \o vs[i]], <<"\n">>)

NotParsed == [done |-> FALSE]

NoThread == 0

\* the LlamaApp part of the state where the local backend is not used
LlamaIdle ==
    /\ llama_resources = None
    /\ constructions = 0
    /\ last_new = "none"
    /\ mutex_owner = NoThread
    /\ gen = <<>>

\* the AskLLM part of the state while parse_llm_response is driven alone
UdfIdle ==
    /\ args = <<>>
    /\ udf_pc = "unused"
    /\ task = <<>>
    /\ completion = <<>>
    /\ posted = {}
    /\ n_apps = 0
    /\ result = None

InitParse ==
    /\ v_list \in SeqsUpTo(Values, MaxK)
    /\ raw_reply = <<>>
    /\ parsed = NotParsed
    /\ parse_pc = "input"
    /\ UdfIdle
    /\ LlamaIdle

BuildReply ==
    /\ parse_pc = "input"
    /\ raw_reply' = NumberedReply(v_list)
    /\ parse_pc' = "built"
    /\ UNCHANGED <<v_list, parsed, udfVars, llamaVars>>

ParseReply ==
    /\ parse_pc = "built"
    /\ parsed' = [done |-> TRUE, values |-> parse_llm_response(raw_reply)]
    /\ parse_pc' = "parsed"
    /\ UNCHANGED <<v_list, raw_reply, udfVars, llamaVars>>

NextParse == BuildReply \/ ParseReply

SpecParse == InitParse /\ [][NextParse]_vars

\* A value survives the round trip unchanged only if it is a single line
\* with no whitespace at either end
PlainValue(v) ==
    /\ ~ContainsStr(v, <<"\n">>)
    /\ v = <<>> \/ (v[1] \notin Whitespace /\ v[Len(v)] \notin Whitespace)

\* C6 as stated: for any ordered list of K strings none of which contains
\* "->", parsing the reply "1 -> {v1}\n...\nK -> {vK}" reproduces the list
\* exactly.
C6_RoundTripAnyValues ==
    parse_pc = "parsed" => parsed.values = v_list

\* C6 amended: for any ordered list of K strings none of which contains "->"
\* or a line feed and none of which begins or ends with whitespace, parsing
\* the reply "1 -> {v1}\n...\nK -> {vK}" reproduces the list exactly (same
\* length, same order, equal elements); for every other list without "->"
\* the parsed list differs from the original.
C6_RoundTripPlainValues ==
    parse_pc = "parsed" =>
        ((\A i \in 1..Len(v_list) : PlainValue(v_list[i])) <=> parsed.values = v_list)

C6_Witness ==
    /\ parse_pc = "parsed"
    /\ Len(v_list) >= 2
    /\ \A i \in 1..Len(v_list) : PlainValue(v_list[i]) /\ Len(v_list[i]) >= 1
    /\ v_list[1] # v_list[2]
    /\ parsed.values = v_list

\* ------------------------------------------------------------------------
\* Results and errors
\* ------------------------------------------------------------------------
Ok(v) == [ok |-> TRUE, val |-> v]
Err(e) == [ok |-> FALSE, err |-> e]

\* DataFusionError::Internal(msg).to_string(): the Display impl of the
\* datafusion crate puts the variant's prefix before the message and its
\* bug-report notice (kept as one token) after it
InternalErrorDisplay(msg) ==
    <<"Internal error: ">> \o msg \o <<". <datafusion bug-report notice>">>

\* plan_err!(msg)
PlanError(msg) == [variant |-> "Plan", msg |-> msg]

\* format!("{:?}", s) of a String: quoted, control characters escaped
EscapeDebug(c) ==
    CASE c = "\n" -> <<"\\", "n">>
      [] c = "\r" -> <<"\\", "r">>
      [] c = "\t" -> <<"\\", "t">>
      [] c = "\"" -> <<"\\", "\"">>
      [] c = "\\" -> <<"\\", "\\">>
      [] OTHER -> <<c>>

RECURSIVE DebugChars(_)
DebugChars(s) == IF s = <<>> THEN <<>> ELSE EscapeDebug(Head(s)) \o DebugChars(Tail(s))

DebugString(s) == <<"\"">> \o DebugChars(s) \o <<"\"">>

\* format!("{:?}", v) of a Vec<String>
DebugVec(v) ==
    <<"[">> \o Join([i \in 1..Len(v) |-> DebugString(v[i])], <<", ">>) \o <<"]">>

\* vec![x; n]
Repeat(x, n) == [i \in 1..n |-> x]

\* ------------------------------------------------------------------------
\* Remote backend (ollama_utils.rs)
\* ------------------------------------------------------------------------
\* serde_json::Value, as far as generate_text looks into it
JNull == [t |-> "null"]
JString(s) == [t |-> "string", s |-> s]
JObject(fields) == [t |-> "object", fields |-> fields]

\* Value's Index<&str>: Null unless an object holding the key
JIndex(v, key) ==
    IF v.t = "object" /\ key \in DOMAIN v.fields THEN v.fields[key] ELSE JNull

\* Value::as_str
as_str(v) == IF v.t = "string" THEN Some(v.s) ELSE None

unwrap_or(opt, default) == IF opt.some THEN opt.val ELSE default

\* format_content (ollama_utils.rs 68-80): "{instruction}:\n1. v1\n2. v2..."
format_content(instruction, column_values) ==
    instruction \o <<":", "\n">> \o
    Join([i \in 1..Len(column_values) |->
            Decimal(i) \o <<".", " ">> \o column_values[i]], <<"\n">>)

\* OllamaApp::new (ollama_utils.rs 14-20): always Ok
OllamaApp_new(model_name, url) == Ok([model_name |-> model_name, url |-> url])

\* generate_text up to its first await (ollama_utils.rs 29-48): the POST
\* it sends
generate_text_request(app, instruction, column_values) ==
    [url |-> app.url,
     model |-> app.model_name,
     role |-> "user",
     content |-> format_content(instruction, column_values),
     stream |-> FALSE]

\* What the network and the server may answer to one POST
SendFailed == [sent |-> FALSE]
HttpResponse(status, body) == [sent |-> TRUE, status |-> status, body |-> body]
BodyUnreadable == [readable |-> FALSE]
BodyText(json) == [readable |-> TRUE, json |-> json]   \* json: None when the text is no JSON

\* generate_text reporting a reply without message.content as an error
generate_text_finish_strict(response) ==
    IF ~response.sent THEN Err(<<"Failed to send request to Ollama server">>)
    ELSE IF ~response.body.readable THEN Err(<<"error decoding response body">>)
    ELSE IF ~response.body.json.some THEN Err(<<"Failed to parse Ollama response">>)
    ELSE LET content == as_str(JIndex(JIndex(response.body.json.val, "message"), "content"))
         IN  IF content.some THEN Ok(content.val) ELSE Err(<<"No response content">>)

\* generate_text from the answer of send() on (ollama_utils.rs 43-63)
generate_text_finish(response) ==
    IF ~response.sent THEN Err(<<"Failed to send request to Ollama server">>)
    ELSE IF ~response.body.readable THEN Err(<<"error decoding response body">>)
    ELSE IF ~response.body.json.some THEN Err(<<"Failed to parse Ollama response">>)
    ELSE Ok(unwrap_or(as_str(JIndex(JIndex(response.body.json.val, "message"), "content")),
                      <<"No response content">>))

\* ------------------------------------------------------------------------
\* AskLLM (llm_udf.rs)
\* ------------------------------------------------------------------------
chunk_size == 5

ollama_model == <<"llama32-df:latest">>
ollama_url == <<"http://localhost:11434/api/chat">>

\* the sanity check of process_chunk with the else branch extending by the
\* parsed values as well
check_result_count_unchecked(vals, evaluated_values) == evaluated_values

\* the sanity check formatting vals.len() into both places of the message
check_result_count_same_counts(vals, evaluated_values) ==
    IF Len(evaluated_values) = Len(vals)
    THEN evaluated_values
    ELSE Repeat(<<"Error: mismatched result count: ">> \o Decimal(Len(vals))
                \o <<" != ">> \o Decimal(Len(vals))
                \o <<". results: ">> \o DebugVec(evaluated_values), Len(vals))

\* process_chunk's sanity check (llm_udf.rs 61-72): the parsed values, or
\* vals.len() copies of the mismatch message
check_result_count(vals, evaluated_values) ==
    IF Len(evaluated_values) = Len(vals)
    THEN evaluated_values
    ELSE LET error_message ==
                <<"Error: mismatched result count: ">> \o Decimal(Len(evaluated_values))
                \o <<" != ">> \o Decimal(Len(vals))
                \o <<". results: ">> \o DebugVec(evaluated_values)
         IN  Repeat(error_message, Len(vals))

\* process_chunk after the await of generate_text (llm_udf.rs 55-74)
process_chunk_resume(vals, response) ==
    LET llm_response == generate_text_finish(response)
    IN  IF ~llm_response.ok
        THEN Err(InternalErrorDisplay(llm_response.err))      \* map_err(..)?
        ELSE Ok(check_result_count(vals, parse_llm_response(llm_response.val)))

\* the match of the flat_map closure with the Err arm returning one row
chunk_records_one_error_row(vals, ret) ==
    IF ret.ok THEN ret.val
    ELSE <<(<<"Error processing chunk: ">> \o ret.err)>>

\* the match on block_on(process_chunk(..)) (llm_udf.rs 127-130)
chunk_records(vals, ret) ==
    IF ret.ok THEN ret.val
    ELSE Repeat(<<"Error processing chunk: ">> \o ret.err, Len(vals))

\* chunk.iter().map(|opt| opt.unwrap_or_default().to_string()) (llm_udf.rs 118-121)
materialize(chunk) == [i \in 1..Len(chunk) |-> unwrap_or(chunk[i], <<>>)]

\* slice::par_chunks: the k-th chunk (1-based) and the number of chunks
NumChunks(values, size) == (Len(values) + size - 1) \div size

\* chunks advancing by size - 1: each shares a row with the one before it
ChunkOf_overlapping(values, size, k) ==
    LET start == (k - 1) * (size - 1) + 1
    IN  SubSeq(values, start,
               IF start + size - 1 <= Len(values) THEN start + size - 1 ELSE Len(values))

ChunkOf(values, size, k) ==
    SubSeq(values, (k - 1) * size + 1,
           IF k * size <= Len(values) THEN k * size ELSE Len(values))

\* The state of one chunk.  pc: "todo" (closure not started), "awaiting"
\* (process_chunk suspended in send().await), "returned" (process_chunk
\* returned, direct calls only), "done" (closure returned its records)
NewTask(chunk) ==
    [pc |-> "todo", chunk |-> chunk, vals |-> <<>>, response |-> None,
     ret |-> None, records |-> <<>>]

\* process_chunk with the is_empty() check left out
process_chunk_begin_unguarded(t, instruction, vals) ==
    LET ollama_app == OllamaApp_new(ollama_model, ollama_url)
    IN  [task |-> [t EXCEPT !.pc = "awaiting", !.vals = vals],
         apps |-> 1,
         request |-> Some(generate_text_request(ollama_app.val, instruction, vals))]

\* process_chunk up to its first suspension or return (llm_udf.rs 46-58):
\* the chunk's next state, the OllamaApp values constructed and the POST sent
process_chunk_begin(t, instruction, vals) ==
    IF vals = <<>>
    THEN [task |-> [t EXCEPT !.pc = "returned", !.vals = vals, !.ret = Some(Ok(<<>>))],
          apps |-> 0,
          request |-> None]
    ELSE LET ollama_app == OllamaApp_new(ollama_model, ollama_url)
         IN  IF ~ollama_app.ok
             THEN [task |-> [t EXCEPT !.pc = "returned", !.vals = vals,
                               !.ret = Some(Err(InternalErrorDisplay(ollama_app.err)))],
                   apps |-> 1,
                   request |-> None]
             ELSE [task |-> [t EXCEPT !.pc = "awaiting", !.vals = vals],
                   apps |-> 1,
                   request |-> Some(generate_text_request(ollama_app.val, instruction, vals))]

\* the rest of the closure once process_chunk has returned
closure_finish(t) ==
    [t EXCEPT !.pc = "done", !.records = chunk_records(t.vals, t.ret.val)]

\* ------------------------------------------------------------------------
\* Inputs: the arguments of a call and the answers of the server
\* ------------------------------------------------------------------------
Utf8Array(cells) == [kind |-> "Array", data_type |-> "Utf8", cells |-> cells]
Utf8Scalar(value) == [kind |-> "Scalar", data_type |-> "Utf8", value |-> value]

\* a column of n cells, every third one null
Column(n) ==
    [i \in 1..n |-> IF i % 3 = 0 THEN None ELSE Some(<<"row", ToString(i)>>)]

ArgValues ==
    {Utf8Array(Column(n)) : n \in 0..MaxRows}
    \cup {Utf8Scalar(None), Utf8Scalar(Some(<<"Rate the feedback">>))}

\* the scenario of the specification's section 8
ScenarioInstruction == <<"Categorize feedback as positive, negative, or neutral">>
ScenarioColumn == << <<"Great!">>, <<"Terrible.">>, <<"Fine.">> >>
ScenarioReply ==
    <<"1", " ", "-", ">", " ", "positive", "\n",
      "2", " ", "-", ">", " ", "negative", "\n",
      "3", " ", "-", ">", " ", "neutral">>
ChattyReply == <<"Sure", ":", "\n">> \o ScenarioReply \o <<"\n", "Done", ".">>

\* the vals of a direct process_chunk call: 0 to 3 values
DirectVals == {SubSeq(ScenarioColumn, 1, n) : n \in 0..Len(ScenarioColumn)}

ErrorObject == JObject([error |-> JString(<<"model not found">>)])
MessageObject(content) == JObject([message |-> JObject([content |-> JString(content)])])

\* JSON documents without a string at message.content: the server's error
\* object, null, a message that is no object, a content that is no string
NoContentObjects ==
    {ErrorObject,
     JNull,
     JObject([message |-> JString(<<"hi">>)]),
     JObject([message |-> JObject([content |-> JNull])])}

Statuses == {200, 404}

\* every answer to a POST whose reply text, if any, is one of `replies`
Responses(replies) ==
    LET bodies == {BodyUnreadable, BodyText(None)}
                  \cup {BodyText(Some(j)) : j \in NoContentObjects}
                  \cup {BodyText(Some(MessageObject(r))) : r \in replies}
    IN  {SendFailed} \cup {HttpResponse(st, b) : st \in Statuses, b \in bodies}

\* the answers to a dispatched chunk: no connection, an error page that is
\* no JSON, the server's JSON error, or a reply
ChatResponses(replies) ==
    {SendFailed,
     HttpResponse(404, BodyText(None)),
     HttpResponse(404, BodyText(Some(ErrorObject)))}
    \cup {HttpResponse(200, BodyText(Some(MessageObject(r)))) : r \in replies}

\* replies to a dispatched chunk: d numbered lines "i -> answer i"
Answers(d) == [i \in 1..d |-> <<"answer", ToString(i)>>]
DispatchReplies == {NumberedReply(Answers(d)) : d \in 0..MaxReplyLines}

\* replies to a direct call: any short text, and the scenario's
ReplyAlphabet == {"a", " ", "-", ">", "\n"}
DirectReplies ==
    SeqsUpTo(ReplyAlphabet, MaxRawLen) \cup {ScenarioReply, ChattyReply}

\* ------------------------------------------------------------------------
\* Spec: invoke_with_args, and process_chunk called on its own
\* ------------------------------------------------------------------------
ParseIdle ==
    /\ v_list = <<>>
    /\ raw_reply = <<>>
    /\ parsed = NotParsed
    /\ parse_pc = "unused"

InitInvoke ==
    /\ args \in {<<x, y>> : x \in ArgValues, y \in ArgValues}
    /\ udf_pc = "called"
    /\ task = <<>>

InitDirect ==
    /\ args = <<>>
    /\ udf_pc = "direct"
    /\ task \in {<<NewTask([i \in 1..Len(vals) |-> Some(vals[i])])>> : vals \in DirectVals}

Init ==
    /\ InitInvoke \/ InitDirect
    /\ completion = <<>>
    /\ posted = {}
    /\ n_apps = 0
    /\ result = None
    /\ ParseIdle
    /\ LlamaIdle

\* the match with only its first pattern checked
matches_signature_any_second(instruction, column_value) ==
    instruction.kind = "Array"

\* the first arm of the match (llm_udf.rs 104-108); the names are the
\* source's: `instruction` is the last argument, matched as the array
matches_signature(instruction, column_value) ==
    instruction.kind = "Array" /\ column_value.kind = "Scalar"

\* invoke_with_args up to the parallel iterator (llm_udf.rs 96-113, 137-141)
Invoke ==
    /\ udf_pc = "called"
    /\ Len(args) = 2                                   \* assert_eq!(args.len(), 2)
    /\ LET instruction == args[2]                      \* args.pop()
           column_value == args[1]                     \* args.pop()
       IN  /\ instruction.data_type = "Utf8"           \* assert_eq!
           /\ column_value.data_type = "Utf8"          \* assert_eq!
           /\ IF matches_signature(instruction, column_value)
              THEN LET values == instruction.cells     \* bound as col_values
                   IN  /\ task' = [k \in 1..NumChunks(values, chunk_size) |->
                                      NewTask(ChunkOf(values, chunk_size, k))]
                       /\ udf_pc' = "par"
                       /\ UNCHANGED result
              ELSE /\ result' = Some(Err(PlanError(
                        <<"ask_llm only accepts 2 arguments in the form of 'instruction' (string), 'column_value' (column)">>)))
                   /\ udf_pc' = "returned"
                   /\ UNCHANGED task
    /\ UNCHANGED <<args, completion, posted, n_apps, parseVars, llamaVars>>

\* instruction.as_deref().unwrap_or_default() (llm_udf.rs 123)
instruction_str == unwrap_or(args[1].value, <<>>)

\* a worker runs the closure of chunk k up to the await inside process_chunk
\* (llm_udf.rs 116-127, 46-58); any number of chunks may be in flight, which
\* covers every size of rayon's pool; Runtime::new() is taken to succeed
ChunkStart(k) ==
    /\ udf_pc = "par"
    /\ k \in DOMAIN task
    /\ task[k].pc = "todo"
    /\ LET vals == materialize(task[k].chunk)
           b == process_chunk_begin(task[k], instruction_str, vals)
       IN  /\ n_apps' = n_apps + b.apps
           /\ posted' = IF b.request.some THEN posted \cup {b.request.val} ELSE posted
           /\ IF b.task.pc = "returned"
              THEN /\ task' = [task EXCEPT ![k] = closure_finish(b.task)]
                   /\ completion' = Append(completion, k)
              ELSE /\ task' = [task EXCEPT ![k] = b.task]
                   /\ UNCHANGED completion
    /\ UNCHANGED <<args, udf_pc, result, parseVars, llamaVars>>

\* the server's answer to chunk k arrives: process_chunk runs to its end and
\* the closure returns the chunk's records (llm_udf.rs 55-74, 127-131)
ChunkRespond(k) ==
    /\ udf_pc = "par"
    /\ k \in DOMAIN task
    /\ task[k].pc = "awaiting"
    /\ \E response \in ChatResponses(DispatchReplies) :
          LET ret == process_chunk_resume(task[k].vals, response)
          IN  task' = [task EXCEPT ![k] =
                         closure_finish([@ EXCEPT !.response = Some(response),
                                                  !.ret = Some(ret)])]
    /\ completion' = Append(completion, k)
    /\ UNCHANGED <<args, udf_pc, posted, n_apps, result, parseVars, llamaVars>>

\* flat_map(..).collect() appending the chunks' records as they complete
RECURSIVE concat_in_order(_, _)
concat_in_order(tasks, order) ==
    IF order = <<>> THEN <<>>
    ELSE tasks[Head(order)].records \o concat_in_order(tasks, Tail(order))

collect_as_completed(tasks) == concat_in_order(tasks, completion)

\* flat_map(..).collect(): the chunks' records concatenated in chunk order
\* (llm_udf.rs 114-132)
RECURSIVE collect(_)
collect(tasks) ==
    IF tasks = <<>> THEN <<>>
    ELSE Head(tasks).records \o collect(Tail(tasks))

\* every closure has returned: invoke_with_args returns the array
\* (llm_udf.rs 132-134)
Collect ==
    /\ udf_pc = "par"
    /\ \A k \in DOMAIN task : task[k].pc = "done"
    /\ result' = Some(Ok(Utf8Array(collect(task))))
    /\ udf_pc' = "returned"
    /\ UNCHANGED <<args, task, completion, posted, n_apps, parseVars, llamaVars>>

\* a direct call of process_chunk, up to its first await or return
CallProcessChunk ==
    /\ udf_pc = "direct"
    /\ task[1].pc = "todo"
    /\ LET vals == materialize(task[1].chunk)
           b == process_chunk_begin(task[1], ScenarioInstruction, vals)
       IN  /\ n_apps' = n_apps + b.apps
           /\ posted' = IF b.request.some THEN posted \cup {b.request.val} ELSE posted
           /\ task' = [task EXCEPT ![1] = b.task]
    /\ UNCHANGED <<args, udf_pc, completion, result, parseVars, llamaVars>>

\* the server's answer to a direct call arrives and process_chunk returns
ResumeProcessChunk ==
    /\ udf_pc = "direct"
    /\ task[1].pc = "awaiting"
    /\ \E response \in Responses(DirectReplies) :
          task' = [task EXCEPT ![1] =
                      [@ EXCEPT !.pc = "returned",
                                !.response = Some(response),
                                !.ret = Some(process_chunk_resume(task[1].vals, response))]]
    /\ UNCHANGED <<args, udf_pc, completion, posted, n_apps, result, parseVars, llamaVars>>

Next ==
    \/ Invoke
    \/ \E k \in 1..(MaxRows + 1) : ChunkStart(k) \/ ChunkRespond(k)
    \/ Collect
    \/ CallProcessChunk
    \/ ResumeProcessChunk

Spec == Init /\ [][Next]_vars

\* ------------------------------------------------------------------------
\* Properties of AskLLM
\* ------------------------------------------------------------------------
\* invoke_with_args was called with (array column, scalar instruction)
ValidCall ==
    /\ udf_pc \in {"called", "par", "returned"}
    /\ args[2].kind = "Array" /\ args[1].kind = "Scalar"

InputColumn == args[2].cells

Returned == udf_pc = "returned"

\* the tasks whose process_chunk has received the server's answer
Answered == {k \in DOMAIN task : task[k].response.some}

Failed(k) == ~generate_text_finish(task[k].response.val).ok

\* the values parsed from the reply chunk k received
ParsedOf(k) == parse_llm_response(generate_text_finish(task[k].response.val).val)

Mismatched(k) == ~Failed(k) /\ Len(ParsedOf(k)) # Len(task[k].vals)

IsDiagnostic(row) ==
    /\ row # <<>>
    /\ row[1] \in {"Error: mismatched result count: ", "Error processing chunk: "}

\* C1: for every input column of length N and every combination of per-batch
\* backend outcomes (success, backend error, reply with the wrong number of
\* parsed lines), invoke_with_args returns an array of exactly N strings.
C1_LengthPreserved ==
    (Returned /\ ValidCall) =>
        /\ result.val.ok
        /\ Len(result.val.val.cells) = Len(InputColumn)

C1_Witness ==
    /\ Returned /\ ValidCall
    /\ Len(InputColumn) > 2 * chunk_size
    /\ \E i, j, k \in Answered :
          /\ Failed(i)
          /\ Mismatched(j)
          /\ ~Failed(k) /\ ~Mismatched(k)
    /\ Len(result.val.val.cells) = Len(InputColumn)

\* C2: whatever the order in which the concurrently processed batches
\* complete, the output is the concatenation of the per-batch outputs in
\* original batch order: the rows of batch k (counted from 0) are the output
\* rows k*5 .. k*5 + len(batch k) - 1.
C2_BatchOrderPreserved ==
    (Returned /\ ValidCall) =>
        \A k \in DOMAIN task :
            /\ Len(task[k].records) = Len(task[k].chunk)
            /\ \A j \in 1..Len(task[k].chunk) :
                  result.val.val.cells[(k - 1) * chunk_size + j] = task[k].records[j]

C2_Witness ==
    /\ Returned /\ ValidCall
    /\ Len(task) >= 3
    /\ \A i \in 1..Len(completion) : completion[i] = Len(task) + 1 - i
    /\ \A i, j \in DOMAIN task : i # j => task[i].records[1] # task[j].records[1]
    /\ \A k \in DOMAIN task :
          result.val.val.cells[(k - 1) * chunk_size + 1] = task[k].records[1]

\* C3: when the backend call of one batch fails, that batch's output is
\* batch_size copies of "Error processing chunk: {detail}", invoke_with_args
\* still returns Ok, and every other batch's output is what its own reply
\* alone determines.
C3_BackendErrorContained ==
    /\ \A k \in Answered :
          task[k].pc = "done" =>
              IF Failed(k)
              THEN task[k].records =
                     Repeat(<<"Error processing chunk: ">> \o
                            InternalErrorDisplay(generate_text_finish(task[k].response.val).err),
                            Len(task[k].chunk))
              ELSE LET values == ParsedOf(k)
                   IN  IF Len(values) = Len(task[k].chunk)
                       THEN task[k].records = values
                       ELSE /\ task[k].records = Repeat(task[k].records[1], Len(task[k].chunk))
                            /\ task[k].records[1][1] = "Error: mismatched result count: "
    /\ (Returned /\ ValidCall) => result.val.ok

C3_Witness ==
    /\ Returned /\ ValidCall /\ result.val.ok
    /\ \E i, j \in Answered :
          /\ Failed(i) /\ Len(task[i].chunk) = chunk_size
          /\ task[i].records[chunk_size][1] = "Error processing chunk: "
          /\ ~Failed(j) /\ ~Mismatched(j) /\ task[j].records = ParsedOf(j)

\* C4: when the number of values parsed from a batch's reply differs from the
\* batch size n >= 1, process_chunk returns Ok with exactly n copies of one
\* diagnostic string holding the parsed count and n; it returns no error and
\* no result of another length.
C4_MismatchContained ==
    \A k \in Answered :
        ~Failed(k) =>
            LET ret == task[k].ret.val
                n == Len(task[k].vals)
                count == Len(ParsedOf(k))
            IN  count # n =>
                    /\ ret.ok
                    /\ Len(ret.val) = n
                    /\ \A i \in 1..n : ret.val[i] = ret.val[1]
                    /\ ret.val[1][1] = "Error: mismatched result count: "
                    /\ ContainsStr(ret.val[1], Decimal(count) \o <<" != ">> \o Decimal(n))

C4_Witness ==
    \E k \in Answered :
        /\ Mismatched(k)
        /\ Len(task[k].vals) >= 2
        /\ Len(ParsedOf(k)) >= 1
        /\ task[k].ret.val.ok
        /\ Len(task[k].ret.val.val) = Len(task[k].vals)

\* the lines of a reply that hold the delimiter, in line order
DelimiterLines(reply) == SelectSeq(Lines(reply), LAMBDA l : ContainsStr(l, Arrow))

\* the value of a delimiter line: the text after its first "->", up to the
\* next "->" if there is one, without the whitespace around it
ValueOfLine(l) ==
    LET rest == SubSeq(l, FindStr(l, Arrow) + 2, Len(l))
        j == FindStr(rest, Arrow)
    IN  Trim(IF j = 0 THEN rest ELSE SubSeq(rest, 1, j - 1))

\* C5: for a batch of n values whose reply holds exactly n lines with the
\* delimiter "->", the batch output is the n values of those lines in line
\* order, and none of them is a diagnostic or error string.
C5_ParsedValuesInLineOrder ==
    \A k \in Answered :
        ~Failed(k) =>
            LET reply == generate_text_finish(task[k].response.val).val
                dl == DelimiterLines(reply)
            IN  Len(dl) = Len(task[k].vals) =>
                    /\ task[k].ret.val = Ok([i \in 1..Len(dl) |-> ValueOfLine(dl[i])])
                    /\ \A i \in 1..Len(dl) : ~IsDiagnostic(task[k].ret.val.val[i])

\* the scenario: 3 values, reply "1 -> positive\n2 -> negative\n3 -> neutral"
C5_Witness ==
    /\ udf_pc = "direct"
    /\ task[1].pc = "returned"
    /\ task[1].vals = ScenarioColumn
    /\ task[1].response.some
    /\ ~Failed(1)
    /\ generate_text_finish(task[1].response.val).val = ScenarioReply
    /\ task[1].ret.val = Ok(<< <<"positive">>, <<"negative">>, <<"neutral">> >>)

\* C7: an empty batch never invokes the backend and returns an empty result:
\* process_chunk with zero values returns Ok(empty) with no OllamaApp built
\* and no request sent, and a column of length 0 causes no backend call.
C7_EmptyBatchShortCircuit ==
    /\ \A k \in DOMAIN task :
          (task[k].pc # "todo" /\ task[k].chunk = <<>>) =>
              /\ task[k].ret = Some(Ok(<<>>))
              /\ task[k].response = None
    /\ (udf_pc = "direct" /\ task[1].chunk = <<>>) => (posted = {} /\ n_apps = 0)
    /\ (ValidCall /\ InputColumn = <<>>) =>
          /\ posted = {} /\ n_apps = 0 /\ task = <<>>
          /\ Returned => result = Some(Ok(Utf8Array(<<>>)))

C7_Witness ==
    /\ udf_pc = "direct"
    /\ task[1].chunk = <<>>
    /\ task[1].pc = "returned"
    /\ task[1].ret = Some(Ok(<<>>))
    /\ posted = {} /\ n_apps = 0

\* C9: generate_text fails with an error on network failure and on every
\* non-2xx HTTP response, whatever the body of that response is.
C9_NonSuccessStatusFails ==
    \A k \in Answered :
        LET response == task[k].response.val
        IN  (~response.sent \/ response.status \notin 200..299) =>
                /\ ~generate_text_finish(response).ok
                /\ ~task[k].ret.val.ok

\* C10: called with arguments that are not (array column, scalar
\* instruction), invoke_with_args returns an error, no batch is processed and
\* no backend call is made.
C10_SignatureErrorBeforeDispatch ==
    (udf_pc \in {"called", "par", "returned"} /\ ~ValidCall) =>
        /\ task = <<>> /\ completion = <<>>
        /\ posted = {} /\ n_apps = 0
        /\ udf_pc # "par"
        /\ Returned => (result.some /\ ~result.val.ok /\ result.val.err.variant = "Plan")

C10_Witness ==
    /\ Returned
    /\ args[1].kind = "Array" /\ args[2].kind = "Array"
    /\ Len(args[1].cells) >= 1 /\ Len(args[2].cells) >= 1
    /\ ~result.val.ok
    /\ posted = {} /\ task = <<>>

\* the whole text of a delimiter line after its first "->", without the
\* whitespace around it
RestOfLine(l) == Trim(SubSeq(l, FindStr(l, Arrow) + 2, Len(l)))

\* C11: for each line of the reply that contains "->", the parsed value is
\* the whole substring after the first occurrence of "->", trimmed of
\* surrounding whitespace, also when the line contains "->" more than once;
\* lines without "->" contribute no value; values appear in line order.
\* process_chunk returns what its sanity check makes of these values.
C11_ValueIsRestOfLine ==
    \A k \in Answered :
        ~Failed(k) =>
            LET reply == generate_text_finish(task[k].response.val).val
                dl == DelimiterLines(reply)
            IN  task[k].ret.val =
                    Ok(check_result_count(task[k].vals,
                                          [i \in 1..Len(dl) |-> RestOfLine(dl[i])]))

\* the JSON document holds a string at message.content
HasContentString(j) ==
    /\ j.t = "object"
    /\ "message" \in DOMAIN j.fields
    /\ j.fields["message"].t = "object"
    /\ "content" \in DOMAIN j.fields["message"].fields
    /\ j.fields["message"].fields["content"].t = "string"

\* the server answered chunk k with JSON lacking a string at message.content
NoContentReply(k) ==
    LET response == task[k].response.val
    IN  /\ response.sent
        /\ response.body.readable
        /\ response.body.json.some
        /\ ~HasContentString(response.body.json.val)

\* n copies of the count-mismatch diagnostic for 0 parsed values
ZeroOfN(n) ==
    Repeat(<<"Error: mismatched result count: ", "0", " != ", ToString(n),
             ". results: ", "[", "]">>, n)

\* C15: when the remote reply is valid JSON without a string at
\* message.content, generate_text returns Ok with the placeholder "No
\* response content" instead of an error; process_chunk and the dispatcher
\* then render that batch of n values as n copies of the count-mismatch
\* diagnostic (0 parsed values vs n), not as "Error processing chunk" rows.
C15_PlaceholderBecomesMismatch ==
    \A k \in Answered :
        NoContentReply(k) =>
            LET n == Len(task[k].vals)
            IN  /\ generate_text_finish(task[k].response.val) = Ok(<<"No response content">>)
                /\ task[k].ret.val = Ok(ZeroOfN(n))
                /\ task[k].pc = "done" => task[k].records = ZeroOfN(n)
                /\ (Returned /\ ValidCall) =>
                      \A j \in 1..n :
                          result.val.val.cells[(k - 1) * chunk_size + j] = ZeroOfN(n)[1]

C15_Witness ==
    /\ Returned /\ ValidCall
    /\ \E k, m \in Answered :
          /\ NoContentReply(k)
          /\ Len(task[k].vals) = chunk_size
          /\ task[k].records = ZeroOfN(chunk_size)
          /\ result.val.val.cells[(k - 1) * chunk_size + chunk_size] = ZeroOfN(chunk_size)[1]
          /\ ~Failed(m) /\ ~Mismatched(m)

\* the input rows that make up chunk k, nulls as the empty string
RowsOfChunk(k) ==
    [j \in 1..Len(task[k].chunk) |->
        LET cell == InputColumn[(k - 1) * chunk_size + j]
        IN  IF cell.some THEN cell.val ELSE <<>>]

\* C16: the dispatcher's batches partition the column exactly: batch k
\* (counted from 0) holds the contiguous input rows 5k .. min(5k+5, N)-1,
\* every input row belongs to exactly one batch, every batch has between 1
\* and 5 rows, only the last batch may have fewer than 5, and a missing
\* (null) cell is passed to the backend as the empty string.
C16_BatchesPartitionColumn ==
    (ValidCall /\ udf_pc \in {"par", "returned"}) =>
        LET N == Len(InputColumn)
        IN  /\ \A k \in DOMAIN task :
                  /\ Len(task[k].chunk) \in 1..5
                  /\ k < Len(task) => Len(task[k].chunk) = 5
                  /\ (k - 1) * 5 + Len(task[k].chunk) =
                        (IF (k - 1) * 5 + 5 <= N THEN (k - 1) * 5 + 5 ELSE N)
                  /\ \A j \in 1..Len(task[k].chunk) :
                        task[k].chunk[j] = InputColumn[(k - 1) * 5 + j]
                  /\ task[k].pc # "todo" =>
                        /\ task[k].vals = RowsOfChunk(k)
                        /\ \E r \in posted :
                              r.content = format_content(instruction_str, RowsOfChunk(k))
            /\ \A i \in 1..N :
                  Cardinality({k \in DOMAIN task :
                                  /\ (k - 1) * 5 < i
                                  /\ i <= (k - 1) * 5 + Len(task[k].chunk)}) = 1

\* 11 rows in chunks of 5, 5 and 1, the null third row sent as ""
C16_Witness ==
    /\ Returned /\ ValidCall
    /\ Len(InputColumn) = 2 * chunk_size + 1
    /\ Len(task) = 3
    /\ Len(task[3].chunk) = 1
    /\ InputColumn[3] = None
    /\ task[1].vals[3] = <<>>
    /\ \E r \in posted : ContainsStr(r.content, <<"\n", "3", ".", " ", "\n">>)

\* ------------------------------------------------------------------------
\* Local backend (llm_utils.rs)
\* ------------------------------------------------------------------------
Threads == 1..NumThreads

\* The vocabulary: the end-of-generation token, a one-byte token, and the
\* two bytes of U+00E9 as two tokens
EOG == "<eog>"
Tokens == {EOG, "a", "e-acute[0]", "e-acute[1]"}

\* model.is_eog_token(token)
is_eog_token(token) == token = EOG

\* model.token_to_bytes(token, Special::Tokenize), when it succeeds
token_to_bytes(token) ==
    CASE token = "a" -> <<97>>
      [] token = "e-acute[0]" -> <<195>>
      [] token = "e-acute[1]" -> <<169>>
      [] OTHER -> <<>>

REPLACEMENT_CHARACTER == 65533

\* UTF_8.new_decoder().decode_to_string(bytes, &mut buffer, false): the code
\* points written by a decoder that starts with no pending bytes.  A
\* malformed sequence becomes U+FFFD; a sequence still incomplete at the end
\* of the input stays inside the decoder (last = false) and is written
\* nowhere.  Sequences of one and two bytes only.
RECURSIVE decode_to_string(_)
decode_to_string(bytes) ==
    IF bytes = <<>> THEN <<>>
    ELSE LET b == Head(bytes)
         IN  IF b < 128 THEN <<b>> \o decode_to_string(Tail(bytes))
             ELSE IF b \in 194..223
             THEN IF Len(bytes) = 1 THEN <<>>
                  ELSE IF bytes[2] \in 128..191
                  THEN <<(b - 192) * 64 + (bytes[2] - 128)>>
                       \o decode_to_string(SubSeq(bytes, 3, Len(bytes)))
                  ELSE <<REPLACEMENT_CHARACTER>> \o decode_to_string(Tail(bytes))
             ELSE <<REPLACEMENT_CHARACTER>> \o decode_to_string(Tail(bytes))

\* the text one sampled token adds to output_text (llm_utils.rs 114-120): a
\* new decoder for every token
token_text(token) == decode_to_string(token_to_bytes(token))

\* LlamaBatch::new(max(prompt_length, 64), 1): the batch's capacity
batch_capacity(prompt_length) == IF prompt_length > 64 THEN prompt_length ELSE 64

\* a lock() that does not wait for the holder
mutex_available_always == TRUE

\* Mutex::lock can return: nobody holds the mutex (llm_utils.rs 64)
mutex_available == mutex_owner = NoThread

\* The locals of one generate_text call.  token: the token of the current
\* iteration (line 103); last_pos: the position given to the latest
\* batch.add (lines 90, 124), -1 before the first; generated: the tokens
\* fed back to the model so far
IdleCall ==
    [pc |-> "idle", ctx_size |-> 0, prompt_length |-> 0, n_cur |-> 0,
     n_tokens |-> 0, token |-> None, last_pos |-> -1, generated |-> <<>>,
     output_text |-> <<>>, ret |-> None]

\* a failed native call handled by leaving the loop with what was generated
Fail_returns_partial_text(call, msg) ==
    [call EXCEPT !.pc = "returning", !.ret = Some(Ok(call.output_text))]

\* the `?` of a failed native call: generate_text is about to return Err
Fail(call, msg) == [call EXCEPT !.pc = "returning", !.ret = Some(Err(msg))]

InitLlama ==
    /\ llama_resources = None
    /\ constructions = 0
    /\ last_new = "none"
    /\ mutex_owner = NoThread
    /\ gen = [t \in Threads |-> IdleCall]
    /\ ParseIdle
    /\ UdfIdle

\* a set that replaces the value of an initialized cell
once_cell_set_replacing(cell, value) == [cell |-> Some(value), ok |-> TRUE]

\* OnceCell::set (llm_utils.rs 47): the cell afterwards, and whether set
\* returned Ok; an initialized cell keeps its value and set returns Err
once_cell_set(cell, value) ==
    IF cell = None THEN [cell |-> Some(value), ok |-> TRUE]
    ELSE [cell |-> cell, ok |-> FALSE]

\* LlamaApp::new (llm_utils.rs 36-50); the native init and load may fail
LlamaApp_new ==
    /\ constructions < MaxNew
    /\ constructions' = constructions + 1
    /\ \E init_ok, load_ok \in BOOLEAN :
          IF ~init_ok
          THEN /\ last_new' = "Err: Failed to initialize LLaMA backend"
               /\ UNCHANGED llama_resources
          ELSE IF ~load_ok
          THEN /\ last_new' = "Err: Unable to load model from path"
               /\ UNCHANGED llama_resources
          ELSE LET set == once_cell_set(llama_resources, constructions + 1)
               IN  /\ llama_resources' = set.cell
                   /\ last_new' = IF set.ok THEN "Ok" ELSE "panic"   \* .unwrap()
    /\ UNCHANGED <<mutex_owner, gen, parseVars, udfVars>>

\* generate_text is called on a LlamaApp (llm_utils.rs 54-62);
\* NonZeroU32::new(0).unwrap() panics
GenerateText(t) ==
    /\ gen[t].pc = "idle"
    /\ llama_resources.some                 \* a LlamaApp exists only once new returned Ok
    /\ \E ctx_size \in 0..MaxCtx :
          gen' = [gen EXCEPT ![t] =
                    IF ctx_size = 0
                    THEN [IdleCall EXCEPT !.pc = "panicked"]
                    ELSE [IdleCall EXCEPT !.pc = "lock", !.ctx_size = ctx_size]]
    /\ UNCHANGED <<llama_resources, constructions, last_new, mutex_owner, parseVars, udfVars>>

\* LLAMA_RESOURCES.get().unwrap().lock().unwrap() (llm_utils.rs 64)
Lock(t) ==
    /\ gen[t].pc = "lock"
    /\ mutex_available
    /\ mutex_owner' = t
    /\ gen' = [gen EXCEPT ![t].pc = "new_context"]
    /\ UNCHANGED <<llama_resources, constructions, last_new, parseVars, udfVars>>

\* model.new_context(..) and build_sampler (llm_utils.rs 68-74)
NewContext(t) ==
    /\ gen[t].pc = "new_context"
    /\ \E created \in BOOLEAN :
          gen' = [gen EXCEPT ![t] =
                    IF created THEN [@ EXCEPT !.pc = "tokenize"]
                    ELSE Fail(@, <<"Unable to create LLaMA context">>)]
    /\ UNCHANGED <<llama_resources, constructions, last_new, mutex_owner, parseVars, udfVars>>

\* model.str_to_token(prompt, AddBos::Always) (llm_utils.rs 77-82): the
\* prompt becomes prompt_length >= 1 tokens
Tokenize(t) ==
    /\ gen[t].pc = "tokenize"
    /\ \/ \E n \in 1..MaxPromptLen :
             gen' = [gen EXCEPT ![t] = [@ EXCEPT !.pc = "prefill", !.prompt_length = n]]
       \/ gen' = [gen EXCEPT ![t] = Fail(@, <<"Failed to tokenize prompt: ">>)]
    /\ UNCHANGED <<llama_resources, constructions, last_new, mutex_owner, parseVars, udfVars>>

\* the prompt's batch is filled and decoded, the loop's variables are set
\* (llm_utils.rs 85-99)
Prefill(t) ==
    /\ gen[t].pc = "prefill"
    /\ \E decoded \in BOOLEAN :
          gen' = [gen EXCEPT ![t] =
                    IF gen[t].prompt_length > batch_capacity(gen[t].prompt_length)
                    THEN Fail(@, <<"Insufficient Space">>)           \* batch.add(..)?
                    ELSE IF ~decoded
                    THEN Fail(@, <<"Decode Error">>)                 \* ctx.decode(..)?
                    ELSE [@ EXCEPT !.pc = "loop",
                                   !.n_tokens = gen[t].prompt_length,
                                   !.n_cur = gen[t].prompt_length,    \* batch.n_tokens()
                                   !.last_pos = gen[t].prompt_length - 1,
                                   !.output_text = <<>>]]
    /\ UNCHANGED <<llama_resources, constructions, last_new, mutex_owner, parseVars, udfVars>>

\* max_generation_tokens with prompt_length not subtracted
max_generation_tokens_whole_context(ctx_size, prompt_length) == ctx_size

\* (ctx_size as i32) - prompt_length (llm_utils.rs 98)
max_generation_tokens(ctx_size, prompt_length) == ctx_size - prompt_length

\* one test of the while condition and, if it holds, one iteration
\* (llm_utils.rs 101-128); the loop's end makes output_text the result
SampleStep(t) ==
    /\ gen[t].pc = "loop"
    /\ LET call == gen[t]
           max_tokens == max_generation_tokens(call.ctx_size, call.prompt_length)
       IN  IF call.n_cur <= max_tokens
           THEN \E token \in Tokens, bytes_ok \in BOOLEAN, decoded \in BOOLEAN :
                   gen' = [gen EXCEPT ![t] =
                      IF is_eog_token(token)
                      THEN [call EXCEPT !.pc = "returning",
                                        !.token = Some(token),
                                        !.ret = Some(Ok(call.output_text))]
                      ELSE IF ~bytes_ok
                      THEN Fail([call EXCEPT !.token = Some(token)],
                                <<"Token to bytes error">>)
                      ELSE IF ~decoded
                      THEN Fail([call EXCEPT !.token = Some(token),
                                             !.output_text = @ \o token_text(token),
                                             !.generated = Append(@, token),
                                             !.last_pos = call.n_cur,
                                             !.n_tokens = 1],
                                <<"Decode Error">>)
                      ELSE [call EXCEPT !.token = Some(token),
                                        !.output_text = @ \o token_text(token),
                                        !.generated = Append(@, token),
                                        !.last_pos = call.n_cur,
                                        !.n_tokens = 1,
                                        !.n_cur = @ + 1]]
           ELSE gen' = [gen EXCEPT ![t] =
                           [call EXCEPT !.pc = "returning",
                                        !.ret = Some(Ok(call.output_text))]]
    /\ UNCHANGED <<llama_resources, constructions, last_new, mutex_owner, parseVars, udfVars>>

\* a return that leaks the MutexGuard
Return_keeps_lock(t) ==
    /\ gen[t].pc = "returning"
    /\ gen' = [gen EXCEPT ![t] = IdleCall]
    /\ UNCHANGED <<llama_resources, constructions, last_new, mutex_owner, parseVars, udfVars>>

\* generate_text returns: the MutexGuard `resources` is dropped
\* (llm_utils.rs 132-133, and every `?`)
Return(t) ==
    /\ gen[t].pc = "returning"
    /\ mutex_owner' = NoThread
    /\ gen' = [gen EXCEPT ![t] = IdleCall]
    /\ UNCHANGED <<llama_resources, constructions, last_new, parseVars, udfVars>>

NextLlama ==
    \/ LlamaApp_new
    \/ \E t \in Threads :
          \/ GenerateText(t)
          \/ Lock(t)
          \/ NewContext(t)
          \/ Tokenize(t)
          \/ Prefill(t)
          \/ SampleStep(t)
          \/ Return(t)

SpecLlama == InitLlama /\ [][NextLlama]_vars

\* Scheduling: a thread inside generate_text keeps running and its native
\* calls return (weak fairness of each of its steps); a thread waiting in
\* lock() gets the mutex if it is free again and again (strong fairness).
\* Nothing obliges a caller to call generate_text or LlamaApp::new.
FairScheduling ==
    \A t \in Threads :
        /\ SF_vars(Lock(t))
        /\ WF_vars(NewContext(t))
        /\ WF_vars(Tokenize(t))
        /\ WF_vars(Prefill(t))
        /\ WF_vars(SampleStep(t))
        /\ WF_vars(Return(t))

SpecLlamaFair == InitLlama /\ [][NextLlama]_vars /\ FairScheduling

\* ------------------------------------------------------------------------
\* Properties of the local backend
\* ------------------------------------------------------------------------
\* the calls between context creation and the end of the sampling loop
InGeneration(t) ==
    gen[t].pc \in {"new_context", "tokenize", "prefill", "loop", "returning"}

\* C8: for any number of threads calling generate_text concurrently, at most
\* one of them is at any time between context creation and the end of its
\* sampling loop, and it is the one holding the lock.
C8_OneGenerationAtATime ==
    /\ \A t, u \in Threads : (InGeneration(t) /\ InGeneration(u)) => t = u
    /\ \A t \in Threads : InGeneration(t) <=> mutex_owner = t

C8_Witness ==
    \E t, u \in Threads :
        /\ t # u
        /\ gen[t].pc = "loop" /\ Len(gen[t].generated) >= 1
        /\ gen[u].pc = "lock"
        /\ mutex_owner = t

\* the bytes of a sequence of tokens, concatenated
RECURSIVE BytesOf(_)
BytesOf(tokens) ==
    IF tokens = <<>> THEN <<>>
    ELSE token_to_bytes(Head(tokens)) \o BytesOf(Tail(tokens))

\* generate_text is about to return Ok
ReturningOk(t) ==
    gen[t].pc = "returning" /\ gen[t].ret.some /\ gen[t].ret.val.ok

\* bytes is well-formed UTF-8 made of complete sequences (of one and two
\* bytes)
RECURSIVE WellFormed(_)
WellFormed(bytes) ==
    IF bytes = <<>> THEN TRUE
    ELSE IF Head(bytes) < 128 THEN WellFormed(Tail(bytes))
    ELSE /\ Head(bytes) \in 194..223
         /\ Len(bytes) >= 2
         /\ bytes[2] \in 128..191
         /\ WellFormed(SubSeq(bytes, 3, Len(bytes)))

\* C12: the sampling loop's output tolerates multi-byte sequences split
\* across token boundaries: when the sampled tokens' bytes, concatenated,
\* are UTF-8 text, the text returned by generate_text equals the decoding of
\* that concatenation, so a code point whose bytes are split across two
\* consecutive tokens is returned intact.
C12_SplitCodePointIntact ==
    \A t \in Threads :
        (ReturningOk(t) /\ WellFormed(BytesOf(gen[t].generated))) =>
            gen[t].ret.val.val = decode_to_string(BytesOf(gen[t].generated))

\* A native call of this generate_text call failed, as the call's locals
\* show it: it is returning although the loop's variables were never set
\* (context creation, tokenization or the prefill failed), or although the
\* loop's condition still holds and the token in hand is no
\* end-of-generation token (token_to_bytes or the decode of the loop failed)
Aborted(call) ==
    /\ call.pc = "returning"
    /\ \/ call.n_cur = 0
       \/ /\ call.n_cur <= call.ctx_size - call.prompt_length
          /\ call.token.some
          /\ ~is_eog_token(call.token.val)

\* C13: any tokenization, context-creation or decode failure makes
\* generate_text return an error and never the partially accumulated text;
\* the lock is still held by the failing call until it returns and is
\* released by that return, so a later call can acquire it.
C13_FailureReturnsErrorAndUnlocks ==
    /\ [](\A t \in Threads :
            Aborted(gen[t]) =>
                /\ gen[t].ret.some
                /\ ~gen[t].ret.val.ok
                /\ mutex_owner = t)
    /\ [][\A t \in Threads :
            (Aborted(gen[t]) /\ gen'[t] # gen[t]) =>
                (gen'[t].pc = "idle" /\ mutex_owner' = NoThread /\ mutex_available')]_vars

\* a decode inside the loop failed with text already accumulated, while
\* another call waits for the lock
C13_Witness ==
    \E t, u \in Threads :
        /\ t # u
        /\ Aborted(gen[t])
        /\ Len(gen[t].generated) >= 2
        /\ gen[t].output_text # <<>>
        /\ ~gen[t].ret.val.ok
        /\ gen[u].pc = "lock"

NewEnds == constructions' # constructions

\* the resource is installed by a construction that found the cell empty
\* and returned Ok, and an installed resource is never replaced or removed
InstalledOnce ==
    /\ (NewEnds /\ last_new' = "Ok") =>
          (llama_resources = None /\ llama_resources' = Some(constructions'))
    /\ llama_resources.some => llama_resources' = llama_resources

\* C18 as stated: the process-wide resource is initialized once, at the
\* first successful LlamaApp::new, and never replaced or torn down; a second
\* LlamaApp::new in the same process returns neither a new usable instance
\* nor an error value: it panics at the set of the already-initialized cell.
C18_SecondNewPanics ==
    [][/\ InstalledOnce
       /\ (llama_resources.some /\ NewEnds) => last_new' = "panic"]_vars

\* C18 amended: the process-wide resource is initialized once, at the first
\* successful LlamaApp::new, and never replaced or torn down; a later
\* LlamaApp::new in the same process never returns a new usable instance: it
\* returns an error value when the backend initialization or the model load
\* fails, and panics at the set of the already-initialized cell otherwise.
C18_InitializedOnce ==
    [][/\ InstalledOnce
       /\ (llama_resources.some /\ NewEnds) =>
             last_new' \in {"Err: Failed to initialize LLaMA backend",
                            "Err: Unable to load model from path",
                            "panic"}]_vars

\* a second construction panicked, the first one's resource is in use
C18_Witness ==
    /\ constructions = 2
    /\ last_new = "panic"
    /\ llama_resources = Some(1)
    /\ \E t \in Threads : gen[t].pc = "loop" /\ Len(gen[t].generated) >= 1

=============================================================================
